---- MODULE Spec2Model ----
(***************************************************************************)
(* SEO Research Pro: the three SEOAnalyzer view components of the          *)
(* repository and the request/outcome handling they share.                 *)
(*                                                                         *)
(*   "legacy"    src/app/page.tsx:47-342    analyzeSEO, GET /api/crawl     *)
(*   "tabs"      src/app/page.tsx:403-951   analyzeKeywords (/keywords)    *)
(*                                          analyzeCompetitor (/analyze)   *)
(*   "validated" src/unnamed/part_003       isValidUrl, analyzeSEO with    *)
(*                                          gemini_top_n, dismissable error*)
(*                                                                         *)
(* A string typed into the URL field is a sequence of lexemes (Tokens):    *)
(* words made of letters, ":", "/", "&" and the space.  Messages are       *)
(* strings.                                                                *)
(***************************************************************************)
EXTENDS Integers, Sequences, FiniteSets, TLC

\* ------------------------------------------------------------------------
\* Bounds of the model
\* ------------------------------------------------------------------------
MaxUrlLen == 4
MaxClicks == 2

\* ------------------------------------------------------------------------
\* Strings of the URL field
\* ------------------------------------------------------------------------
Words == {"http", "mailto", "x"}
Tokens == Words \cup {":", "/", " ", "&"}
SpecialSchemes == {<<"http">>}

RECURSIVE StringsUpTo(_)
StringsUpTo(n) ==
  IF n = 0 THEN {<<>>}
  ELSE LET S == StringsUpTo(n - 1)
       IN  S \cup {Append(s, t) : s \in {r \in S : Len(r) = n - 1}, t \in Tokens}

\* String.prototype.trim, and the URL parser's stripping of leading and
\* trailing spaces: the longest substring without a space at either end.
RECURSIVE trim(_)
trim(s) ==
  IF s = <<>> THEN s
  ELSE IF Head(s) = " " THEN trim(Tail(s))
  ELSE IF s[Len(s)] = " " THEN trim(SubSeq(s, 1, Len(s) - 1))
  ELSE s

\* Length of the longest prefix of s that has no token of the set stop.
RECURSIVE PrefixLen(_, _)
PrefixLen(s, stop) ==
  IF s = <<>> \/ Head(s) \in stop THEN 0 ELSE 1 + PrefixLen(Tail(s), stop)

Drop(s, n) == SubSeq(s, n + 1, Len(s))
Take(s, n) == SubSeq(s, 1, n)

RECURSIVE SkipSlashes(_)
SkipSlashes(s) == IF s # <<>> /\ Head(s) = "/" THEN SkipSlashes(Tail(s)) ELSE s

Failure == [ok |-> FALSE, protocol |-> <<>>, host |-> <<>>]

\* The lexemes a host is made of: letters and "&", which is no forbidden host
\* code point.
HostTokens == Tokens \ {":", "/", " "}

\* Authority of a URL: host[:port] up to the first "/".  A space is a
\* forbidden host code point, a ":" needs a host before it and only digits
\* (none in Tokens) after it, and a special scheme needs a host.
ParseAuthority(scheme, rest, special) ==
  LET auth == Take(rest, PrefixLen(rest, {"/"}))
      hostname == Take(auth, PrefixLen(auth, {":"}))
      hasPort == Len(hostname) < Len(auth)
      port == Drop(auth, Len(hostname) + 1)
  IN  IF \E i \in 1..Len(auth) : auth[i] = " " THEN Failure
      ELSE IF hasPort /\ (hostname = <<>> \/ port # <<>>) THEN Failure
      ELSE IF special /\ hostname = <<>> THEN Failure
      ELSE [ok |-> TRUE, protocol |-> scheme \o <<":">>, host |-> hostname]

\* new URL(value) without a base: the scheme is the leading run of letters
\* before ":", a special scheme goes on to the authority past any slashes, any
\* other scheme has an authority only after "//" and an empty host otherwise.
\* ok = FALSE stands for the TypeError the constructor throws.
ParseURL(value) ==
  LET s == trim(value)
      n == PrefixLen(s, Tokens \ Words)
  IN  IF n = 0 \/ n >= Len(s) \/ s[n + 1] # ":" THEN Failure
      ELSE LET scheme == Take(s, n)
               rest == Drop(s, n + 1)
           IN  IF scheme \in SpecialSchemes
                 THEN ParseAuthority(scheme, SkipSlashes(rest), TRUE)
               ELSE IF Len(rest) >= 2 /\ rest[1] = "/" /\ rest[2] = "/"
                 THEN ParseAuthority(scheme, Drop(rest, 2), FALSE)
               ELSE [ok |-> TRUE, protocol |-> scheme \o <<":">>, host |-> <<>>]

isValidUrl_NoHostCheck(value) ==
  LET u == ParseURL(value) IN u.ok /\ u.protocol # <<>>

isValidUrl(value) ==
  LET u == ParseURL(value) IN u.ok /\ u.protocol # <<>> /\ u.host # <<>>

\* The inputs the URL field takes in the views: empty, blank, a bare word, a
\* special-scheme URL with and without slashes, one padded with a space, a
\* special scheme without a host and a URL without a host.
UrlInputs ==
  { <<>>, <<" ">>, <<"x">>,
    <<"http", ":", "/", "/", "x">>, <<"http", ":", "x">>,
    <<" ", "http", ":", "/", "/", "x">>,
    <<"http", ":", "/", "/">>, <<"mailto", ":", "x">> }

\* ------------------------------------------------------------------------
\* Query strings
\* ------------------------------------------------------------------------
\* A query string is a sequence of lexemes too: names, "=", "&", letters,
\* percent escapes and "+".
PercentEscape(t) ==
  CASE t = ":" -> "%3A"
    [] t = "/" -> "%2F"
    [] t = " " -> "%20"
    [] t = "&" -> "%26"
    [] OTHER -> t

encodeURIComponent_Raw(s) == s

\* encodeURIComponent: everything but letters, digits and - _ . ! ~ * ' ( )
\* becomes a percent escape.
encodeURIComponent(s) == [i \in 1..Len(s) |-> PercentEscape(s[i])]

\* The application/x-www-form-urlencoded serializer of URLSearchParams: as
\* above, but a space becomes "+".
FormEscape(t) == IF t = " " THEN "+" ELSE PercentEscape(t)
FormEncode(s) == [i \in 1..Len(s) |-> FormEscape(s[i])]

\* new URLSearchParams({url, gemini_top_n}).toString()
URLSearchParamsToString(u, n) ==
  <<"url", "=">> \o FormEncode(u) \o <<"&", "gemini_top_n", "=", ToString(n)>>

\* What the receiving end makes of a query string: it is cut at every "&",
\* each piece at its first "=", and in a value "+" is a space and a percent
\* escape the character it stands for.
Unescape(t) ==
  CASE t = "%3A" -> ":"
    [] t = "%2F" -> "/"
    [] t = "%20" -> " "
    [] t = "%26" -> "&"
    [] t = "+" -> " "
    [] OTHER -> t

RECURSIVE QueryPairs(_)
QueryPairs(q) ==
  IF q = <<>> THEN <<>>
  ELSE LET n == PrefixLen(q, {"&"})
           piece == Take(q, n)
           k == PrefixLen(piece, {"="})
           pair == [name |-> Take(piece, k),
                    value |-> [i \in 1..Len(Drop(piece, k + 1)) |->
                                 Unescape(Drop(piece, k + 1)[i])]]
       IN  <<pair>> \o QueryPairs(Drop(q, n + 1))

\* The first value a query string gives a name, <<>> when it has none.
QueryParam(q, name) ==
  LET pairs == QueryPairs(q)
      at == {i \in 1..Len(pairs) : pairs[i].name = <<name>>}
  IN  IF at = {} THEN <<>>
      ELSE pairs[CHOOSE i \in at : \A j \in at : i <= j].value

\* ------------------------------------------------------------------------
\* JavaScript values, responses and thrown values
\* ------------------------------------------------------------------------
Undefined == [t |-> "undefined"]
Null == [t |-> "null"]
Str(s) == [t |-> "string", s |-> s]
List == [t |-> "array"]
Num(n) == [t |-> "number", n |-> n]
Arr(items) == [t |-> "array", items |-> items]

\* ToBoolean, as `a || b`, `a && b` and `a ? b : c` apply it.
Truthy(v) ==
  \/ v.t = "array"
  \/ v.t = "object"
  \/ v.t = "string" /\ v.s # ""
  \/ v.t = "number" /\ v.n # 0

\* ToString, as `new Error(v)` applies it to its argument and as React
\* applies it to a number child.
ToStr(v) ==
  CASE v.t = "string" -> v.s
    [] v.t = "number" -> ToString(v.n)
    [] v.t = "array" -> "[object Object]"
    [] v.t = "object" -> "[object Object]"
    [] OTHER -> v.t

\* a || b
Or(a, b) == IF Truthy(a) THEN a ELSE b

Error(msg) == [isError |-> TRUE, message |-> msg]

\* What fetch rejects with: a TypeError, or (a stubbed transport) a value
\* that is no Error.
Rejections == {Error("Failed to fetch"), [isError |-> FALSE, message |-> "timeout"]}

OkStatuses == {200}
ErrorStatuses == {404, 500}
ok(status) == status >= 200 /\ status <= 299

\* Response bodies.  A body that is no JSON makes response.json() reject
\* with a SyntaxError whose text depends on the body.
NotJson == [json |-> FALSE, value |-> Str("<html>")]
Json(v) == [json |-> TRUE, value |-> v]
JsonSyntaxError(body) == Error("Unexpected token < in JSON at position 0")

ErrorObject(detail, message) == [t |-> "object", detail |-> detail, message |-> message]
EmptyObject == ErrorObject(Undefined, Undefined)
ErrorBodies ==
  {NotJson, Json(Null)} \cup
  {Json(ErrorObject(d, m)) :
     d \in {Undefined, Str("backend overloaded"), Str(""), List},
     m \in {Undefined, Str("try later")}}

\* Success payloads (KeywordData / CompetitorData / AnalyzePayload): objects
\* with some of the fields of the interfaces.  A keyword is a sequence of
\* lexemes, a keyword list an array of keywords.
KeywordGroups(g, o, m) == [t |-> "object", gemini |-> g, onpage |-> o, merged |-> m]
NoFields == [t |-> "object"]

\* The object d with the field name set to v; no field for undefined, which
\* JSON does not have.
With(d, name, v) == IF v = Undefined THEN d ELSE (name :> v) @@ d

\* d.name: undefined when the object has no such field.
Field(d, name) == IF name \in DOMAIN d THEN d[name] ELSE Undefined

Payload(g, o, m) ==
  With(With(NoFields, "word_count", Num(1200)),
       "keywords", KeywordGroups(Arr(g), Arr(o), Arr(m)))
Payloads ==
  { Payload(<<(<<"ai">>)>>, <<>>, <<(<<"seo">>), (<<"tools">>)>>),
    Payload(<<(<<"seo">>)>>, <<(<<"seo">>)>>, <<(<<"seo">>)>>) }
SuccessBodies == {NotJson} \cup {Json(p) : p \in Payloads}

Response(status, body) ==
  [kind |-> "response", thrown |-> Error(""), status |-> status, body |-> body]

\* The ways a fetch settles.
Outcomes ==
  {[kind |-> "rejected", thrown |-> r, status |-> 0, body |-> NotJson] : r \in Rejections}
  \cup {[kind |-> "response", thrown |-> Error(""), status |-> s, body |-> b] :
          s \in OkStatuses, b \in SuccessBodies}
  \cup {[kind |-> "response", thrown |-> Error(""), status |-> s, body |-> b] :
          s \in ErrorStatuses, b \in ErrorBodies}

Return(v) == [threw |-> FALSE, value |-> v, thrown |-> Error("")]
Throw(e) == [threw |-> TRUE, value |-> Null, thrown |-> e]

\* await response.json()
ResponseJson(body) == IF body.json THEN Return(body.value) ELSE Throw(JsonSyntaxError(body))

\* await response.json().catch(() => ({}))
ErrorData(body) == IF body.json THEN body.value ELSE EmptyObject

HttpErrorMessage(status) == Str("HTTP error! status: " \o ToString(status))

\* ------------------------------------------------------------------------
\* The handlers' try blocks and catch clauses
\* ------------------------------------------------------------------------
Views == {"legacy", "tabs", "validated"}
Handlers == {"analyzeSEO_crawl", "analyzeKeywords", "analyzeCompetitor", "analyzeSEO"}

\* page.tsx analyzeSEO (GET /api/crawl): the body of a failed response is
\* not read.
TryCrawl(outcome) ==
  IF outcome.kind = "rejected" THEN Throw(outcome.thrown)
  ELSE IF ~ok(outcome.status) THEN Throw(Error("Failed to analyze website"))
  ELSE ResponseJson(outcome.body)

\* analyzeKeywords and analyzeCompetitor: errorData.detail || `HTTP error!
\* status: ...`; reading .detail of null is a TypeError.
TryTabs(outcome) ==
  IF outcome.kind = "rejected" THEN Throw(outcome.thrown)
  ELSE IF ~ok(outcome.status) THEN
    LET errorData == ErrorData(outcome.body)
    IN  IF errorData.t = "null"
          THEN Throw(Error("Cannot read properties of null (reading 'detail')"))
        ELSE Throw(Error(ToStr(Or(errorData.detail, HttpErrorMessage(outcome.status)))))
  ELSE ResponseJson(outcome.body)

\* errorData?.detail and errorData?.message
OptionalGet(errorData, field) ==
  IF errorData.t = "null" THEN Undefined
  ELSE IF field = "detail" THEN errorData.detail ELSE errorData.message

\* part_003 analyzeSEO: errorData?.detail || errorData?.message || `HTTP
\* error! status: ...`.
TryAnalyze(outcome) ==
  IF outcome.kind = "rejected" THEN Throw(outcome.thrown)
  ELSE IF ~ok(outcome.status) THEN
    LET errorData == ErrorData(outcome.body)
        message == Or(Or(OptionalGet(errorData, "detail"), OptionalGet(errorData, "message")),
                      HttpErrorMessage(outcome.status))
    IN  Throw(Error(ToStr(message)))
  ELSE ResponseJson(outcome.body)

Try(handler, outcome) ==
  CASE handler = "analyzeSEO_crawl" -> TryCrawl(outcome)
    [] handler \in {"analyzeKeywords", "analyzeCompetitor"} -> TryTabs(outcome)
    [] handler = "analyzeSEO" -> TryAnalyze(outcome)

\* The fallback text of each catch clause.
GenericFailure(handler) ==
  CASE handler = "analyzeSEO_crawl" -> "Analysis failed"
    [] handler = "analyzeKeywords" -> "Failed to analyze keywords"
    [] handler = "analyzeCompetitor" -> "Failed to analyze competitor"
    [] handler = "analyzeSEO" -> "Failed to analyze website"

Catch_AlwaysGeneric(handler, thrown) == GenericFailure(handler)

\* setError(err instanceof Error ? err.message : "<fallback>")
Catch(handler, thrown) ==
  IF thrown.isError THEN thrown.message ELSE GenericFailure(handler)

LoadingAfter_SuccessOnly(result) == result.threw

\* finally { setLoading(false) }: the value of loading once the handler is done.
LoadingAfter(result) == FALSE

\* ------------------------------------------------------------------------
\* State of a mounted view
\* ------------------------------------------------------------------------
VARIABLES
  view,            \* which SEOAnalyzer component is mounted
  env,             \* process.env.NEXT_PUBLIC_FASTAPI_URL of the build
  activeTab,       \* tabs: 'keywords' | 'competitor'
  url,             \* the URL field
  geminiTopN,      \* validated: the AI keywords field
  loading,
  seoData,         \* legacy: the result object
  keywordData,     \* tabs: the result of /keywords
  competitorData,  \* tabs: the result of /analyze
  data,            \* validated: the result object
  error,
  copied,          \* validated: the "Copied" flag
  clipboard,       \* the texts written to navigator.clipboard, oldest first
  downloads,       \* the files handed to the browser for download, oldest first
  inflight,        \* fetches that have not settled, oldest first
  nAccepted,       \* clicks that passed the handler's guard
  nRequests,       \* fetches issued
  lastReq,         \* the fetch issued last
  last             \* the outcome the step into this state handled, if any

vars ==
  <<view, env, activeTab, url, geminiTopN, loading, seoData, keywordData, competitorData,
    data, error, copied, clipboard, downloads, inflight, nAccepted, nRequests, lastReq,
    last>>

DefaultTopN == 20
TopNInputs == {0, DefaultTopN, 150}

\* Builds to model: the variable unset, empty, and set to a deployed backend.
EnvValues == {Undefined, Str(""), Str("https://api.example.com")}

\* const API_URL = process.env.NEXT_PUBLIC_FASTAPI_URL || 'http://localhost:8000'
API_URL == Or(env, Str("http://localhost:8000")).s

\* The origin a relative request URL is resolved against: the page's own.
PageOrigin == "(page)"

\* A request: fetch(`${origin}${endpoint}?${search}`) with no init argument,
\* hence a GET.  query holds the handler's values the search string was made
\* of.
NoRequest ==
  [id |-> 0, handler |-> "none", method |-> "", origin |-> "", endpoint |-> "",
   search |-> <<>>, query |-> [url |-> <<>>], repeat |-> FALSE]
NoOutcome ==
  [kind |-> "none", req |-> NoRequest,
   outcome |-> [kind |-> "none", thrown |-> Error(""), status |-> 0, body |-> NotJson],
   had |-> FALSE]

\* A view right after it is mounted.
Mounted ==
  /\ view \in Views
  /\ activeTab = "keywords"
  /\ url = <<>>
  /\ geminiTopN = DefaultTopN
  /\ loading = FALSE
  /\ seoData = Null
  /\ keywordData = Null
  /\ competitorData = Null
  /\ data = Null
  /\ error = ""
  /\ copied = FALSE
  /\ clipboard = <<>>
  /\ downloads = <<>>
  /\ inflight = <<>>
  /\ nAccepted = 0
  /\ nRequests = 0
  /\ lastReq = NoRequest
  /\ last = NoOutcome

\* The build without NEXT_PUBLIC_FASTAPI_URL (local development).
Init == env = Undefined /\ Mounted

\* const valid = useMemo(() => isValidUrl(url), [url])
valid == isValidUrl(url)

AnalyzeDisabled_IgnoresLoading == view = "validated" /\ ~valid

\* The disabled attribute of the Analyze button.
AnalyzeDisabled ==
  IF view = "validated" THEN ~valid \/ loading ELSE loading

\* The result object a handler stores into.
ResultOf(handler) ==
  CASE handler = "analyzeSEO_crawl" -> seoData
    [] handler = "analyzeKeywords" -> keywordData
    [] handler = "analyzeCompetitor" -> competitorData
    [] handler = "analyzeSEO" -> data

Fetch_Cached(req) ==
  IF req.repeat /\ ResultOf(req.handler).t # "null" THEN <<>> ELSE <<req>>

\* The network calls one pass through a handler makes: a single fetch.
Fetch(req) == <<req>>

\* setLoading(true); setError(""); ... await fetch(...)
Begin(handler, origin, endpoint, search, query) ==
  LET req == [id |-> nRequests + 1, handler |-> handler, method |-> "GET",
              origin |-> origin, endpoint |-> endpoint, search |-> search,
              query |-> query,
              repeat |-> (lastReq.endpoint = endpoint /\ lastReq.query = query)]
  IN  /\ nAccepted < MaxClicks
      /\ loading' = TRUE
      /\ error' = ""
      /\ nAccepted' = nAccepted + 1
      /\ nRequests' = nRequests + Len(Fetch(req))
      /\ inflight' = inflight \o Fetch(req)
      /\ lastReq' = IF Fetch(req) = <<>> THEN lastReq ELSE req
      /\ last' = NoOutcome

EarlyReturn ==
  /\ last' = NoOutcome
  /\ UNCHANGED <<loading, error, nAccepted, nRequests, inflight, lastReq>>

\* legacy: if (!url) return
analyzeSEO_crawl ==
  /\ view = "legacy"
  /\ ~AnalyzeDisabled
  /\ IF url = <<>> THEN EarlyReturn
     ELSE Begin("analyzeSEO_crawl", PageOrigin, "/api/crawl",
                <<"url", "=">> \o encodeURIComponent(url), [url |-> url])
  /\ UNCHANGED <<view, env, clipboard, downloads,
                 activeTab, url, geminiTopN, seoData, keywordData, competitorData,
                 data, copied>>

\* tabs: if (!url.trim()) return
analyzeKeywords ==
  /\ view = "tabs"
  /\ activeTab = "keywords"
  /\ ~AnalyzeDisabled
  /\ IF trim(url) = <<>> THEN EarlyReturn
     ELSE Begin("analyzeKeywords", API_URL, "/keywords",
                <<"url", "=">> \o encodeURIComponent(url), [url |-> url])
  /\ UNCHANGED <<view, env, clipboard, downloads,
                 activeTab, url, geminiTopN, seoData, keywordData, competitorData,
                 data, copied>>

analyzeCompetitor ==
  /\ view = "tabs"
  /\ activeTab = "competitor"
  /\ ~AnalyzeDisabled
  /\ IF trim(url) = <<>> THEN EarlyReturn
     ELSE Begin("analyzeCompetitor", API_URL, "/analyze",
                <<"url", "=">> \o encodeURIComponent(url), [url |-> url])
  /\ UNCHANGED <<view, env, clipboard, downloads,
                 activeTab, url, geminiTopN, seoData, keywordData, competitorData,
                 data, copied>>

\* validated: if (!url || !valid) return; setCopied(false)
analyzeSEO ==
  /\ view = "validated"
  /\ ~AnalyzeDisabled
  /\ IF url = <<>> \/ ~valid THEN EarlyReturn /\ UNCHANGED copied
     ELSE /\ Begin("analyzeSEO", API_URL, "/analyze",
                   URLSearchParamsToString(url, geminiTopN),
                   [url |-> url, gemini_top_n |-> geminiTopN])
          /\ copied' = FALSE
  /\ UNCHANGED <<view, env, clipboard, downloads,
                 activeTab, url, geminiTopN, seoData, keywordData, competitorData,
                 data>>

\* ------------------------------------------------------------------------
\* The rest of a handler, run when its fetch settles
\* ------------------------------------------------------------------------
RemoveAt(q, i) == SubSeq(q, 1, i - 1) \o SubSeq(q, i + 1, Len(q))

\* The steps every handler shares once fetch number i settles with outcome:
\* catch sets the error, finally clears loading.
Settle(handler, i, outcome) ==
  LET result == Try(handler, outcome)
  IN  /\ i \in 1..Len(inflight)
      /\ inflight[i].handler = handler
      /\ inflight' = RemoveAt(inflight, i)
      /\ error' = IF result.threw THEN Catch(handler, result.thrown) ELSE error
      /\ loading' = LoadingAfter(result)
      /\ last' = [kind |-> "settled", req |-> inflight[i], outcome |-> outcome,
                  had |-> (ResultOf(handler).t # "null")]
      /\ UNCHANGED <<view, env, clipboard, downloads,
                     activeTab, url, geminiTopN, copied, nAccepted, nRequests, lastReq>>

\* legacy: setSeoData(data) on success, nothing on failure
analyzeSEO_crawlSettle(i, outcome) ==
  /\ Settle("analyzeSEO_crawl", i, outcome)
  /\ seoData' = IF Try("analyzeSEO_crawl", outcome).threw THEN seoData
                ELSE Try("analyzeSEO_crawl", outcome).value
  /\ UNCHANGED <<keywordData, competitorData, data>>

analyzeSEO_crawlSettled ==
  \E i \in 1..Len(inflight) :
    /\ inflight[i].handler = "analyzeSEO_crawl"
    /\ \E outcome \in Outcomes : analyzeSEO_crawlSettle(i, outcome)

analyzeKeywordsSettle_ByActiveTab(i, outcome) ==
  /\ Settle("analyzeKeywords", i, outcome)
  /\ IF Try("analyzeKeywords", outcome).threw THEN UNCHANGED <<keywordData, competitorData>>
     ELSE IF activeTab = "keywords"
       THEN keywordData' = Try("analyzeKeywords", outcome).value /\ UNCHANGED competitorData
     ELSE competitorData' = Try("analyzeKeywords", outcome).value /\ UNCHANGED keywordData
  /\ UNCHANGED <<seoData, data>>

\* tabs: setKeywordData(data) on success, nothing on failure
analyzeKeywordsSettle(i, outcome) ==
  /\ Settle("analyzeKeywords", i, outcome)
  /\ keywordData' = IF Try("analyzeKeywords", outcome).threw THEN keywordData
                    ELSE Try("analyzeKeywords", outcome).value
  /\ UNCHANGED <<seoData, competitorData, data>>

analyzeKeywordsSettled ==
  \E i \in 1..Len(inflight) :
    /\ inflight[i].handler = "analyzeKeywords"
    /\ \E outcome \in Outcomes : analyzeKeywordsSettle(i, outcome)

\* tabs: setCompetitorData(data) on success, nothing on failure
analyzeCompetitorSettle(i, outcome) ==
  /\ Settle("analyzeCompetitor", i, outcome)
  /\ competitorData' = IF Try("analyzeCompetitor", outcome).threw THEN competitorData
                       ELSE Try("analyzeCompetitor", outcome).value
  /\ UNCHANGED <<seoData, keywordData, data>>

analyzeCompetitorSettled ==
  \E i \in 1..Len(inflight) :
    /\ inflight[i].handler = "analyzeCompetitor"
    /\ \E outcome \in Outcomes : analyzeCompetitorSettle(i, outcome)

\* validated: setData(payload) on success, setData(null) in the catch clause
analyzeSEOSettle(i, outcome) ==
  /\ Settle("analyzeSEO", i, outcome)
  /\ data' = IF Try("analyzeSEO", outcome).threw THEN Null
             ELSE Try("analyzeSEO", outcome).value
  /\ UNCHANGED <<seoData, keywordData, competitorData>>

analyzeSEOSettled ==
  \E i \in 1..Len(inflight) :
    /\ inflight[i].handler = "analyzeSEO"
    /\ \E outcome \in Outcomes : analyzeSEOSettle(i, outcome)

\* ------------------------------------------------------------------------
\* The other event handlers
\* ------------------------------------------------------------------------
setUrl_Cancels(value) ==
  /\ url' = value
  /\ inflight' = IF isValidUrl(value) THEN inflight ELSE <<>>
  /\ loading' = IF isValidUrl(value) THEN loading ELSE FALSE
  /\ last' = NoOutcome
  /\ UNCHANGED <<view, env, clipboard, downloads,
                 activeTab, geminiTopN, seoData, keywordData,
                 competitorData, data, error, copied, nAccepted, nRequests,
                 lastReq>>

\* onChange={(e) => setUrl(e.target.value)}
setUrl(value) ==
  /\ url' = value
  /\ last' = NoOutcome
  /\ UNCHANGED <<view, env, clipboard, downloads,
                 activeTab, geminiTopN, loading, seoData, keywordData,
                 competitorData, data, error, copied, inflight, nAccepted, nRequests,
                 lastReq>>

setActiveTab_ClearsError(tab) ==
  /\ view = "tabs"
  /\ activeTab' = tab
  /\ error' = ""
  /\ last' = NoOutcome
  /\ UNCHANGED <<view, env, clipboard, downloads,
                 url, geminiTopN, loading, seoData, keywordData, competitorData,
                 data, copied, inflight, nAccepted, nRequests, lastReq>>

\* onClick={() => setActiveTab(tab)}
setActiveTab(tab) ==
  /\ view = "tabs"
  /\ activeTab' = tab
  /\ last' = NoOutcome
  /\ UNCHANGED <<view, env, clipboard, downloads,
                 url, geminiTopN, loading, seoData, keywordData, competitorData,
                 data, error, copied, inflight, nAccepted, nRequests, lastReq>>

setGeminiTopN_ClearsResult(n) ==
  /\ view = "validated"
  /\ geminiTopN' = n
  /\ data' = Null
  /\ last' = NoOutcome
  /\ UNCHANGED <<view, env, clipboard, downloads,
                 activeTab, url, loading, seoData, keywordData, competitorData,
                 error, copied, inflight, nAccepted, nRequests, lastReq>>

\* onChange={(e) => setGeminiTopN(Number(e.target.value || 0))}
setGeminiTopN(n) ==
  /\ view = "validated"
  /\ geminiTopN' = n
  /\ last' = NoOutcome
  /\ UNCHANGED <<view, env, clipboard, downloads,
                 activeTab, url, loading, seoData, keywordData, competitorData,
                 data, error, copied, inflight, nAccepted, nRequests, lastReq>>

Dismiss_ResetsForm ==
  /\ view = "validated"
  /\ error # ""
  /\ error' = ""
  /\ url' = <<>>
  /\ last' = NoOutcome
  /\ UNCHANGED <<view, env, clipboard, downloads,
                 activeTab, geminiTopN, loading, seoData, keywordData,
                 competitorData, data, copied, inflight, nAccepted, nRequests, lastReq>>

\* The Dismiss button, rendered while error is non-empty: setError("")
Dismiss ==
  /\ view = "validated"
  /\ error # ""
  /\ error' = ""
  /\ last' = NoOutcome
  /\ UNCHANGED <<view, env, clipboard, downloads,
                 activeTab, url, geminiTopN, loading, seoData, keywordData,
                 competitorData, data, copied, inflight, nAccepted, nRequests, lastReq>>

EditUrl == \E value \in UrlInputs : setUrl(value)
SwitchTab == \E tab \in {"keywords", "competitor"} : setActiveTab(tab)
EditTopN == \E n \in TopNInputs : setGeminiTopN(n)

Click == analyzeSEO_crawl \/ analyzeKeywords \/ analyzeCompetitor \/ analyzeSEO
Settled ==
  \/ analyzeSEO_crawlSettled
  \/ analyzeKeywordsSettled
  \/ analyzeCompetitorSettled
  \/ analyzeSEOSettled

Next == EditUrl \/ SwitchTab \/ EditTopN \/ Dismiss \/ Click \/ Settled

Spec == Init /\ [][Next]_vars

\* Every issued fetch settles: the transport resolves or rejects each one.
FairSpec == Spec /\ WF_vars(Settled)

\* The validator alone: the URL field of the validated view typed and erased
\* one lexeme at a time, over every string of at most MaxUrlLen lexemes.
TypeToken == \E t \in Tokens : Len(url) < MaxUrlLen /\ setUrl(Append(url, t))
Backspace == url # <<>> /\ setUrl(Take(url, Len(url) - 1))
InitUrl == Init /\ view = "validated"
NextUrl == TypeToken \/ Backspace
SpecUrl == InitUrl /\ [][NextUrl]_vars

\* ------------------------------------------------------------------------
\* What a view displays
\* ------------------------------------------------------------------------
HasResult ==
  \/ seoData.t # "null"
  \/ keywordData.t # "null"
  \/ competitorData.t # "null"
  \/ data.t # "null"

\* {seoData && (...)}, {activeTab === ... && keywordData && (...)},
\* {data && !loading && (...)}
ResultPanelShown ==
  CASE view = "legacy" -> seoData.t # "null"
    [] view = "tabs" -> \/ activeTab = "keywords" /\ keywordData.t # "null"
                        \/ activeTab = "competitor" /\ competitorData.t # "null"
    [] view = "validated" -> data.t # "null" /\ ~loading

\* {error && (...)}
ErrorShown == error # ""

\* A fetch outcome that takes a handler into its catch clause.
ErrorPath(outcome) ==
  \/ outcome.kind = "rejected"
  \/ outcome.kind = "response" /\ ~ok(outcome.status)
  \/ outcome.kind = "response" /\ ok(outcome.status) /\ ~outcome.body.json

JustSettled == last.kind = "settled"

\* ------------------------------------------------------------------------
\* Claims
\* ------------------------------------------------------------------------

\* C1: a view never holds a non-null result object and a non-empty error
\* message at the same time.
C1_ResultXorError == ~(HasResult /\ error # "")

\* C2: in either mode (keywords or analyze) every request that is issued
\* carries a URL that passed validation at click time, so a click on an empty
\* or invalid URL issues none.
C2_RequestsCarryValidUrl ==
  lastReq.endpoint \in {"/keywords", "/analyze"} => isValidUrl(lastReq.query.url)

\* A string has a scheme when, spaces at its ends aside, it starts with
\* letters followed by ":".
SchemeEnd(s) ==
  LET t == trim(s)
  IN  {i \in 2..Len(t) : t[i] = ":" /\ \A j \in 1..(i - 1) : t[j] \in Words}
LacksScheme(s) == SchemeEnd(s) = {}

\* A string has a host when a host lexeme follows its scheme's ":" and the slashes
\* after it: any number of slashes for a special scheme, exactly "//" for
\* another one.
LacksHost(s) ==
  \/ LacksScheme(s)
  \/ LET t == trim(s)
         i == CHOOSE k \in SchemeEnd(s) : TRUE
         special == Take(t, i - 1) \in SpecialSchemes
         hostAt(k) == k <= Len(t) /\ t[k] \in HostTokens
     IN  IF special
           THEN ~\E k \in (i + 1)..Len(t) :
                   hostAt(k) /\ \A j \in (i + 1)..(k - 1) : t[j] = "/"
         ELSE ~(i + 2 <= Len(t) /\ t[i + 1] = "/" /\ t[i + 2] = "/" /\ hostAt(i + 3))

\* C3 as stated: isValidUrl is false for every string that lacks a scheme or
\* a host, and true for every string that parses as an absolute URL.
C3_RejectsAndAcceptsEveryParse ==
  /\ (LacksScheme(url) \/ LacksHost(url)) => ~isValidUrl(url)
  /\ ParseURL(url).ok => isValidUrl(url)

\* C3 amended: isValidUrl is false for every string that lacks a scheme or a
\* host, and true for every string that parses as an absolute URL and has a
\* host.
C3_RejectsAndAcceptsWithHost ==
  /\ (LacksScheme(url) \/ LacksHost(url)) => ~isValidUrl(url)
  /\ (ParseURL(url).ok /\ ~LacksHost(url)) => isValidUrl(url)

\* The typed string parses as an absolute URL without a host and is rejected.
C3_Witness == ParseURL(url).ok /\ LacksHost(url) /\ ~isValidUrl(url) /\ ~valid

\* C4: when a request ends in an error path, the state after it has no result
\* object for that request's mode and a non-empty error message.
C4_ErrorPathsClearResult ==
  (JustSettled /\ ErrorPath(last.outcome))
    => (ResultOf(last.req.handler).t = "null" /\ error # "")

\* The text C5 prescribes for a non-2xx response: detail when the body is JSON
\* with a (non-empty) detail string, else message when present, else the
\* status message.
PrescribedHttpError(outcome) ==
  LET body == outcome.body
      fields == body.json /\ body.value.t = "object"
  IN  IF fields /\ body.value.detail.t = "string" /\ body.value.detail.s # ""
        THEN body.value.detail.s
      ELSE IF fields /\ Truthy(body.value.message) THEN ToStr(body.value.message)
      ELSE HttpErrorMessage(outcome.status).s

\* C5: after every non-2xx response in either mode (keywords or analyze) the
\* displayed error is the body's detail, else its message, else the generic
\* status message.
C5_HttpErrorText ==
  (/\ JustSettled
   /\ last.req.endpoint \in {"/keywords", "/analyze"}
   /\ last.outcome.kind = "response"
   /\ ~ok(last.outcome.status))
    => error = PrescribedHttpError(last.outcome)

\* A transport failure, or a 2xx response whose body is no JSON, and the
\* value thrown inside the try block then.
TransportOrParseFailure(outcome) ==
  \/ outcome.kind = "rejected"
  \/ outcome.kind = "response" /\ ok(outcome.status) /\ ~outcome.body.json
ThrownBy(outcome) ==
  IF outcome.kind = "rejected" THEN outcome.thrown ELSE JsonSyntaxError(outcome.body)

C7_OneFetchPerClick ==
  /\ nRequests = nAccepted
  /\ (JustSettled /\ ErrorPath(last.outcome)) => (inflight = <<>> /\ nRequests = last.req.id)

\* A second click with the URL of the first, whose result is stored, has put
\* a second request in flight.
C7_Witness ==
  /\ nAccepted = 2
  /\ nRequests = 2
  /\ lastReq.repeat
  /\ ResultOf(lastReq.handler).t # "null"
  /\ Len(inflight) = 1

\* C8: at most one request is in flight, loading is true exactly while one
\* is, and an outcome that is handled is that of the newest request.
C8_OneInFlight ==
  /\ Len(inflight) <= 1
  /\ loading <=> inflight # <<>>
  /\ loading => AnalyzeDisabled
  /\ JustSettled => last.req.id = nRequests

\* tabs: a keywords request is in flight, the competitor tab is active and its
\* Analyze button is disabled.
C8_Witness ==
  /\ view = "tabs"
  /\ activeTab = "competitor"
  /\ loading
  /\ Len(inflight) = 1
  /\ inflight[1].handler = "analyzeKeywords"
  /\ trim(url) # <<>>
  /\ AnalyzeDisabled

Idle == ~loading /\ ~ResultPanelShown /\ ~ErrorShown
Loading == loading /\ ~ResultPanelShown /\ ~ErrorShown
Loaded == ~loading /\ ResultPanelShown /\ ~ErrorShown
Errored == ~loading /\ ~ResultPanelShown /\ ErrorShown

\* C9: the view is always in exactly one of idle, loading, loaded and errored;
\* while loading no result panel and no error message is displayed, and
\* loading is true exactly while a click's request awaits its resolution.
C9_ExclusiveStates ==
  /\ Idle \/ Loading \/ Loaded \/ Errored
  /\ loading <=> inflight # <<>>

TopNMin == 5
TopNMax == 100

\* C11: the gemini_top_n sent with an analyze request of the validated view is
\* an integer in the range 5..100, whatever was typed into the AI keywords
\* field before the click.
C11_TopNInRange ==
  lastReq.handler = "analyzeSEO"
    => (lastReq.query.gemini_top_n >= TopNMin /\ lastReq.query.gemini_top_n <= TopNMax)

\* ------------------------------------------------------------------------
\* The request a click issues: the URL field typed and erased one lexeme at a
\* time in any view and build, then the click that sends it
\* ------------------------------------------------------------------------
InitWire == env \in EnvValues /\ Mounted
NextWire == (~loading /\ (TypeToken \/ Backspace \/ SwitchTab)) \/ Click
SpecWire == InitWire /\ [][NextWire]_vars

\* The endpoint the view in use selects at click time.
EndpointOfMode ==
  IF view = "tabs" /\ activeTab = "keywords" THEN "/keywords" ELSE "/analyze"

\* C12: every request a view issues is a GET to the configured backend origin
\* (http://localhost:8000 when the variable is unset), to /keywords or
\* /analyze as the mode at click time selects, and to no other path.
C12_OnlyBackendEndpoints ==
  [][nRequests' > nRequests
       => /\ lastReq'.method = "GET"
          /\ lastReq'.origin = API_URL
          /\ lastReq'.endpoint \in {"/keywords", "/analyze"}
          /\ lastReq'.endpoint = EndpointOfMode]_vars

Absent(v) == v.t \in {"undefined", "null"}

\* Number.prototype.toLocaleString() in the en-US locale: the digits in
\* groups of three.
Pad3(n) ==
  IF n < 10 THEN "00" \o ToString(n)
  ELSE IF n < 100 THEN "0" \o ToString(n)
  ELSE ToString(n)

RECURSIVE Grouped(_)
Grouped(n) ==
  IF n < 1000 THEN ToString(n) ELSE Grouped(n \div 1000) \o "," \o Pad3(n % 1000)

\* v.toLocaleString(): a TypeError when v is undefined or null.
toLocaleString(v) ==
  IF Absent(v)
    THEN Throw(Error("Cannot read properties of undefined (reading 'toLocaleString')"))
  ELSE IF v.t = "number" THEN Return(Str(Grouped(v.n)))
  ELSE Return(Str(ToStr(v)))

\* v?.toLocaleString()
OptionalLocaleString(v) == IF Absent(v) THEN Undefined ELSE toLocaleString(v).value

\* Math.floor(n * 0.8), Math.floor(n * 1.2), Math.floor(n / 10) and
\* Math.floor(n * 0.9) of a non-negative integer n: the double product rounds
\* to the exact one wherever that is an integer.
FloorTimes(n, tenths) == (n * tenths) \div 10
FloorTenth(n) == n \div 10

\* data.keywords?.[type] || []
getKeywordsByType(d, type) ==
  IF Absent(Field(d, "keywords")) THEN Arr(<<>>)
  ELSE Or(Field(d, "keywords")[type], Arr(<<>>))

\* [...new Set(list)]: the first occurrence of every element, in order.
RECURSIVE Unique(_)
Unique(list) ==
  IF list = <<>> THEN <<>>
  ELSE LET init == Unique(Take(list, Len(list) - 1))
           x == list[Len(list)]
       IN  IF \E i \in 1..Len(init) : init[i] = x THEN init ELSE Append(init, x)

getAllKeywords(d) ==
  IF ~Truthy(Field(d, "keywords")) THEN <<>>
  ELSE Unique(Or(Field(d, "keywords").gemini, Arr(<<>>)).items
              \o Or(Field(d, "keywords").onpage, Arr(<<>>)).items
              \o Or(Field(d, "keywords").merged, Arr(<<>>)).items)

\* The text of the five derived metrics of the competitor panel.
MonthlyVisitors(d) ==
  ToStr(Or(OptionalLocaleString(Field(d, "monthly_visitors")),
           IF Truthy(Field(d, "estimated_traffic"))
             THEN Str(Grouped(FloorTimes(Field(d, "estimated_traffic").n, 12)))
           ELSE Str("N/A")))

OrganicKeywords(d) ==
  ToStr(Or(OptionalLocaleString(Field(d, "organic_keywords")),
           IF Truthy(Field(d, "keywords")) THEN Str(Grouped(Len(getAllKeywords(d))))
           ELSE Str("N/A")))

PageAuthority(d) ==
  ToStr(Or(Field(d, "page_authority"),
           IF Truthy(Field(d, "domain_authority"))
             THEN Num(FloorTimes(Field(d, "domain_authority").n, 8))
           ELSE Str("N/A")))

ReferringDomains(d) ==
  ToStr(Or(OptionalLocaleString(Field(d, "referring_domains")),
           IF Truthy(Field(d, "backlinks"))
             THEN Str(Grouped(FloorTenth(Field(d, "backlinks").n)))
           ELSE Str("N/A")))

MobileScore(d) ==
  ToStr(Or(Field(d, "mobile_score"),
           IF Truthy(Field(d, "seo_score")) THEN Num(FloorTimes(Field(d, "seo_score").n, 9))
           ELSE Str("N/A")))

\* The Keywords Found section of the competitor panel:
\* {competitorData.keywords && getAllKeywords(competitorData).length > 0 && ...}
\* with getAllKeywords(competitorData).slice(0, 20) as badges and a last badge
\* `+${length - 20} more` when length > 20.
KeywordsShownMax == 20
KeywordsSectionShown(d) == Truthy(Field(d, "keywords")) /\ Len(getAllKeywords(d)) > 0
KeywordsFound(d) ==
  IF KeywordsSectionShown(d) THEN ToString(Len(getAllKeywords(d))) ELSE ""
KeywordBadges(d) ==
  IF ~KeywordsSectionShown(d) THEN <<>>
  ELSE IF Len(getAllKeywords(d)) > KeywordsShownMax
    THEN Take(getAllKeywords(d), KeywordsShownMax)
  ELSE getAllKeywords(d)
MoreBadge(d) ==
  IF KeywordsSectionShown(d) /\ Len(getAllKeywords(d)) > KeywordsShownMax
    THEN "+" \o ToString(Len(getAllKeywords(d)) - KeywordsShownMax) \o " more"
  ELSE ""

\* {competitorData.bounce_rate || '45.2'}% and
\* {competitorData.avg_session_duration || '2:34'}: the text before the "%".
BounceRate(d) == ToStr(Or(Field(d, "bounce_rate"), Str("45.2")))
SessionDuration(d) == ToStr(Or(Field(d, "avg_session_duration"), Str("2:34")))

\* The result object whose panel is on display, Null when none is: {activeTab
\* === 'keywords' && keywordData && ...}, {activeTab === 'competitor' &&
\* competitorData && ...}, {data && !loading && ...}.
Displayed ==
  CASE view = "tabs" /\ activeTab = "keywords" -> keywordData
    [] view = "tabs" /\ activeTab = "competitor" -> competitorData
    [] view = "validated" /\ ~loading -> data
    [] OTHER -> Null

CompetitorPanel == view = "tabs" /\ activeTab = "competitor" /\ ~Absent(competitorData)

\* The panels with the three keyword groups: the keywords tab of the tabs view
\* and the validated view (the competitor tab lists getAllKeywords instead).
KeywordPanel ==
  \/ view = "tabs" /\ activeTab = "keywords" /\ ~Absent(keywordData)
  \/ view = "validated" /\ ~loading /\ ~Absent(data)

\* Rendering the panel throws (and React unmounts the tree): the tabs view
\* calls word_count.toLocaleString() unguarded in both panels; the validated
\* view reads every field through ?. or ||.
RenderThrows ==
  /\ view = "tabs"
  /\ ~Absent(Displayed)
  /\ toLocaleString(Field(Displayed, "word_count")).threw

GroupTypes == {"gemini", "onpage", "merged"}

\* A keyword group has a heading with its count: always in the validated
\* view, only when it has keywords in the tabs view.
GroupShown(type) ==
  /\ KeywordPanel
  /\ ~RenderThrows
  /\ view = "validated" \/ Len(getKeywordsByType(Displayed, type).items) > 0

\* The badges of a group, one per element of the list .map runs over.
Badges(type) ==
  IF KeywordPanel /\ ~RenderThrows THEN getKeywordsByType(Displayed, type).items
  ELSE <<>>

\* The count in the heading of a group, "" when there is no heading.
CountShown(type) ==
  IF GroupShown(type) THEN ToString(Len(getKeywordsByType(Displayed, type).items)) ELSE ""

\* ------------------------------------------------------------------------
\* Results to render: the first result of a session, over keyword lists,
\* metric values and absent fields
\* ------------------------------------------------------------------------
MaxKw == 2
MaxMetric == 2

Keywords == {<<"seo">>, <<"\"", "ai", "\"">>}

RECURSIVE ListsUpTo(_)
ListsUpTo(n) ==
  IF n = 0 THEN {<<>>}
  ELSE LET S == ListsUpTo(n - 1)
       IN  S \cup {Append(l, k) : l \in {r \in S : Len(r) = n - 1}, k \in Keywords}

KeywordLists == {Undefined} \cup {Arr(l) : l \in ListsUpTo(MaxKw)}

KeywordPayloads ==
  {With(With(NoFields, "word_count", Num(1200)), "keywords", KeywordGroups(g, o, m)) :
     g \in KeywordLists, o \in KeywordLists, m \in KeywordLists}

MetricValues == {Undefined} \cup {Num(n) : n \in (0..MaxMetric) \cup {50, 1000}}

\* A derived metric and the field its estimate is computed from.
MetricSources ==
  { <<"monthly_visitors", "estimated_traffic">>, <<"page_authority", "domain_authority">>,
    <<"referring_domains", "backlinks">>, <<"mobile_score", "seo_score">> }

MetricPayloads ==
  {With(With(With(NoFields, "word_count", Num(1200)), ms[1], a), ms[2], b) :
     ms \in MetricSources, a \in MetricValues, b \in MetricValues}
  \cup
  {With(With(With(NoFields, "word_count", Num(1200)), "organic_keywords", a),
        "keywords", k) :
     a \in MetricValues,
     k \in {Undefined, KeywordGroups(Arr(<<(<<"seo">>), (<<"seo">>)>>), Undefined, Arr(<<>>))}}

\* Responses with and without the two traffic figures that have no source
\* field to be estimated from.
TrafficPayloads ==
  {With(With(With(NoFields, "word_count", Num(1200)), "bounce_rate", a),
        "avg_session_duration", s) :
     a \in MetricValues, s \in {Undefined, Str("1:05")}}

\* Responses with up to MaxLong different keywords, some of them in more than
\* one list.
MaxLong == 21
Numbered(from, to) == [i \in 1..(to - from + 1) |-> <<ToString(from + i - 1)>>]
LongPayloads ==
  {With(With(NoFields, "word_count", Num(1200)), "keywords", KeywordGroups(g, o, m)) :
     g \in {Arr(Numbered(1, n)) : n \in {0, MaxLong - 2, MaxLong - 1, MaxLong}},
     o \in {Undefined, Arr(Numbered(MaxLong - 1, MaxLong + 1))},
     m \in {Arr(<<>>), Arr(Numbered(1, 3) \o Numbered(3, 3))}}

\* Every subset of these optional fields absent, the others with a value.
OptionalFields ==
  {"word_count", "keywords", "headings", "technical", "estimated_traffic",
   "domain_authority", "seo_score", "backlinks"}
SomeValue(field) ==
  CASE field = "keywords" -> KeywordGroups(Arr(<<(<<"seo">>)>>), Arr(<<>>), Undefined)
    [] field = "headings" -> [t |-> "object", h1 |-> Arr(<<"Welcome">>), h2 |-> Undefined]
    [] field = "technical" -> [t |-> "object", has_canonical |-> TRUE]
    [] OTHER -> Num(50)
AbsencePayloads ==
  {[f \in present \cup {"t"} |-> IF f = "t" THEN "object" ELSE SomeValue(f)] :
     present \in SUBSET OptionalFields}

RenderPayloads ==
  KeywordPayloads \cup MetricPayloads \cup TrafficPayloads \cup LongPayloads
    \cup AbsencePayloads
RenderOutcomes == {Response(200, Json(p)) : p \in RenderPayloads}

RenderUrl == <<"http", ":", "/", "/", "x">>

InitRender == Init /\ view \in {"tabs", "validated"}
NextRender ==
  \/ setUrl(RenderUrl)
  \/ SwitchTab
  \/ nAccepted = 0 /\ analyzeKeywords
  \/ nAccepted = 0 /\ analyzeCompetitor
  \/ nAccepted = 0 /\ analyzeSEO
  \/ inflight # <<>> /\ \E outcome \in RenderOutcomes : analyzeKeywordsSettle(1, outcome)
  \/ inflight # <<>> /\ \E outcome \in RenderOutcomes : analyzeCompetitorSettle(1, outcome)
  \/ inflight # <<>> /\ \E outcome \in RenderOutcomes : analyzeSEOSettle(1, outcome)
SpecRender == InitRender /\ [][NextRender]_vars

\* ------------------------------------------------------------------------
\* Claims about the rendering of a result
\* ------------------------------------------------------------------------
\* The list a response gives a provenance group: empty when it gives none.
ResponseList(d, type) ==
  LET groups == Field(d, "keywords")
  IN  IF Absent(groups) \/ Absent(groups[type]) THEN <<>> ELSE groups[type].items

\* C14: while the result of a successful response is on display in a keyword
\* view, each provenance group shows one badge per entry of the response's
\* list, in its order and repeats included, and a group that has entries shows
\* their count.
C14_BadgesPerKeyword ==
  KeywordPanel
    => \A type \in GroupTypes :
         LET list == ResponseList(Displayed, type)
         IN  /\ Badges(type) = list
             /\ list # <<>> => CountShown(type) = ToString(Len(list))

\* n times tenths/10, rounded down.
RoundedDown(n, tenths) ==
  CHOOSE k \in 0..(2 * n) : 10 * k <= n * tenths /\ n * tenths < 10 * (k + 1)

\* C15: a competitor result without page_authority and with domain_authority
\* d is displayed with page authority d x 0.8 rounded down.
C15_PageAuthorityEstimate ==
  (/\ CompetitorPanel
   /\ Absent(Field(competitorData, "page_authority"))
   /\ Field(competitorData, "domain_authority").t = "number")
    => /\ ~RenderThrows
       /\ PageAuthority(competitorData)
            = ToString(RoundedDown(Field(competitorData, "domain_authority").n, 8))

\* C16: a competitor result without monthly_visitors and with
\* estimated_traffic t is displayed with monthly visitors t x 1.2 rounded down
\* (its digits grouped in threes).
C16_MonthlyVisitorsEstimate ==
  (/\ CompetitorPanel
   /\ Absent(Field(competitorData, "monthly_visitors"))
   /\ Field(competitorData, "estimated_traffic").t = "number")
    => /\ ~RenderThrows
       /\ MonthlyVisitors(competitorData)
            = Grouped(RoundedDown(Field(competitorData, "estimated_traffic").n, 12))

\* C17: rendering a result object completes without throwing whichever of its
\* fields are absent.
C17_AbsenceNeverThrows == ~Absent(Displayed) => ~RenderThrows

\* The five derived metrics of the competitor panel, each with the field its
\* estimate is computed from, and the text each one is displayed with.
DerivedMetrics == MetricSources \cup {<<"organic_keywords", "keywords">>}
MetricText(d, metric) ==
  CASE metric = "monthly_visitors" -> MonthlyVisitors(d)
    [] metric = "page_authority" -> PageAuthority(d)
    [] metric = "referring_domains" -> ReferringDomains(d)
    [] metric = "mobile_score" -> MobileScore(d)
    [] metric = "organic_keywords" -> OrganicKeywords(d)

\* C20: in the competitor panel each of the five metrics that the response
\* has (0 included) is displayed as returned, plain or with its digits
\* grouped, and N/A stands only for a metric that is absent together with its
\* source field.
C20_PresentMetricsShownAsReturned ==
  CompetitorPanel
    => /\ ~RenderThrows
       /\ \A ms \in DerivedMetrics :
            LET v == Field(competitorData, ms[1])
                text == MetricText(competitorData, ms[1])
            IN  /\ v.t = "number" => text \in {ToString(v.n), Grouped(v.n)}
                /\ text = "N/A" => (Absent(v) /\ Absent(Field(competitorData, ms[2])))

\* The texts a response accounts for: its numbers and strings as they are or
\* with the digits grouped, the estimates computed from its fields, the number
\* of its keywords, and the placeholders.
Placeholders == {"N/A", "0", ""}
FieldTexts(d) ==
  UNION {IF d[f].t = "number" THEN {ToString(d[f].n), Grouped(d[f].n)}
         ELSE IF d[f].t = "string" THEN {d[f].s}
         ELSE {} : f \in DOMAIN d \ {"t"}}
EstimateTexts(d) ==
  UNION {IF Field(d, ms[2]).t = "number"
           THEN {Grouped(RoundedDown(Field(d, ms[2]).n, tenths)) : tenths \in {1, 8, 9, 12}}
         ELSE {} : ms \in MetricSources}
    \cup {Grouped(Len(getAllKeywords(d)))}
MetricTexts(d) ==
  {MetricText(d, ms[1]) : ms \in DerivedMetrics} \cup {BounceRate(d), SessionDuration(d)}

\* C21: every metric text displayed in the competitor panel is a field of the
\* response, an estimate derived from its fields or a placeholder; without
\* bounce_rate or avg_session_duration the panel shows a placeholder for it.
C21_NoMockFigures ==
  (CompetitorPanel /\ ~RenderThrows)
    => /\ MetricTexts(competitorData)
            \subseteq (FieldTexts(competitorData) \cup EstimateTexts(competitorData)
                         \cup Placeholders)
       /\ Absent(Field(competitorData, "bounce_rate"))
            => BounceRate(competitorData) \in Placeholders
       /\ Absent(Field(competitorData, "avg_session_duration"))
            => SessionDuration(competitorData) \in Placeholders

\* ------------------------------------------------------------------------
\* Export helpers of the validated view
\* ------------------------------------------------------------------------
MaxExports == 2

\* parts.join(sep)
RECURSIVE Join(_, _)
Join(parts, sep) ==
  IF parts = <<>> THEN <<>>
  ELSE IF Len(parts) = 1 THEN parts[1]
  ELSE parts[1] \o <<sep>> \o Join(Tail(parts), sep)

\* s.replace(/c/g, by): every lexeme c of s replaced.
RECURSIVE ReplaceAll(_, _, _)
ReplaceAll(s, c, by) ==
  IF s = <<>> THEN <<>>
  ELSE (IF Head(s) = c THEN by ELSE <<Head(s)>>) \o ReplaceAll(Tail(s), c, by)

DoubleQuotes_Verbatim(kw) == kw

\* kw.replace(/"/g, '""')
DoubleQuotes(kw) == ReplaceAll(kw, "\"", <<"\"", "\"">>)

\* data?.keywords?.[type] || []
ExportList(d, type) == IF Absent(d) THEN <<>> ELSE getKeywordsByType(d, type).items

\* words.forEach((kw) => rows.push(`${source},"${kw.replace(/"/g, '""')}"`))
pushRows(source, words) ==
  [i \in 1..Len(words) |-> <<source, ",", "\"">> \o DoubleQuotes(words[i]) \o <<"\"">>]

\* The lexeme for the byte-order mark, the character U+FEFF.
ByteOrderMark == "<U+FEFF>"

\* const csv = "\ufeff" + rows.join("\n")
Csv(d) ==
  <<ByteOrderMark>> \o Join(<<(<<"source,keyword">>)>>
                         \o pushRows("merged", ExportList(d, "merged"))
                         \o pushRows("gemini", ExportList(d, "gemini"))
                         \o pushRows("onpage", ExportList(d, "onpage")), "\n")

\* The Copy merged and Export CSV buttons are part of the result panel.
ExportButtons == view = "validated" /\ ~Absent(data) /\ ~loading

Exported(kind) == [NoOutcome EXCEPT !.kind = kind]

\* copyMerged, with navigator.clipboard.writeText resolving or rejecting
\* (catch {}); the write and setCopied(true) are taken as one step.
copyMerged(resolves) ==
  LET merged == ExportList(data, "merged")
  IN  /\ ExportButtons
      /\ Len(clipboard) + Len(downloads) < MaxExports
      /\ IF merged # <<>> /\ resolves
           THEN /\ clipboard' = Append(clipboard, Join(merged, "\n"))
                /\ copied' = TRUE
         ELSE UNCHANGED <<clipboard, copied>>
      /\ last' = Exported("copyMerged")
      /\ UNCHANGED <<view, env, activeTab, url, geminiTopN, loading, seoData, keywordData,
                     competitorData, data, error, downloads, inflight, nAccepted,
                     nRequests, lastReq>>

\* setTimeout(() => setCopied(false), 1500)
copiedExpires ==
  /\ copied
  /\ copied' = FALSE
  /\ last' = NoOutcome
  /\ UNCHANGED <<view, env, activeTab, url, geminiTopN, loading, seoData, keywordData,
                 competitorData, data, error, clipboard, downloads, inflight, nAccepted,
                 nRequests, lastReq>>

\* downloadCSV: a.download = "keywords.csv"; a.click()
downloadCSV ==
  /\ ExportButtons
  /\ Len(clipboard) + Len(downloads) < MaxExports
  /\ downloads' = Append(downloads, [name |-> "keywords.csv", content |-> Csv(data)])
  /\ last' = Exported("downloadCSV")
  /\ UNCHANGED <<view, env, activeTab, url, geminiTopN, loading, seoData, keywordData,
                 competitorData, data, error, copied, clipboard, inflight, nAccepted,
                 nRequests, lastReq>>

\* The first result of a session in the validated view, and exports of it.
ExportOutcomes == {Response(200, Json(p)) : p \in KeywordPayloads \cup {NoFields}}
InitExport == Init /\ view = "validated"
NextExport ==
  \/ setUrl(RenderUrl)
  \/ nAccepted = 0 /\ analyzeSEO
  \/ inflight # <<>> /\ \E outcome \in ExportOutcomes : analyzeSEOSettle(1, outcome)
  \/ \E resolves \in BOOLEAN : copyMerged(resolves)
  \/ copiedExpires
  \/ downloadCSV
SpecExport == InitExport /\ [][NextExport]_vars

\* ------------------------------------------------------------------------
\* Claims about the export helpers
\* ------------------------------------------------------------------------
\* A keyword with each of its double quotes written twice.
RECURSIVE QuotesDoubled(_)
QuotesDoubled(kw) ==
  IF kw = <<>> THEN <<>>
  ELSE QuotesDoubled(Take(kw, Len(kw) - 1))
         \o (IF kw[Len(kw)] = "\"" THEN <<"\"", "\"">> ELSE <<kw[Len(kw)]>>)

\* One line per keyword of a list: the tag, a comma and the keyword in double
\* quotes, as it is or with its own quotes doubled.
RECURSIVE RowsOf(_, _, _)
RowsOf(tag, list, doubled) ==
  IF list = <<>> THEN <<>>
  ELSE <<"\n", tag, ",", "\"">>
         \o (IF doubled THEN QuotesDoubled(Head(list)) ELSE Head(list))
         \o <<"\"">>
         \o RowsOf(tag, Tail(list), doubled)

ExpectedCsv(doubled) ==
  <<ByteOrderMark, "source,keyword">>
    \o RowsOf("merged", ResponseList(data, "merged"), doubled)
    \o RowsOf("gemini", ResponseList(data, "gemini"), doubled)
    \o RowsOf("onpage", ResponseList(data, "onpage"), doubled)

LastDownload == downloads[Len(downloads)]

\* C18 as stated: the file Export CSV produces is the byte-order mark, the
\* header line and one row per keyword, merged then gemini then onpage, each
\* row the tag, a comma and the keyword in double quotes.
C18_CsvRowsVerbatim ==
  last.kind = "downloadCSV"
    => (LastDownload.name = "keywords.csv" /\ LastDownload.content = ExpectedCsv(FALSE))

\* C18 amended: as above, with every double quote inside a keyword written
\* twice.
C18_CsvRowsQuoted ==
  last.kind = "downloadCSV"
    => (LastDownload.name = "keywords.csv" /\ LastDownload.content = ExpectedCsv(TRUE))

\* A file was exported from a result with two merged keywords, one of them
\* with double quotes in it, one gemini keyword and no onpage keyword.
C18_Witness ==
  /\ last.kind = "downloadCSV"
  /\ Len(ResponseList(data, "merged")) = 2
  /\ \E i \in 1..2 : ResponseList(data, "merged")[i] = <<"\"", "ai", "\"">>
  /\ Len(ResponseList(data, "gemini")) = 1
  /\ ResponseList(data, "onpage") = <<>>
  /\ LastDownload.content # ExpectedCsv(FALSE)
  /\ LastDownload.content = ExpectedCsv(TRUE)

\* C19: copyMerged on a result without merged keywords writes nothing to the
\* clipboard and changes no state, and downloadCSV on a result without any
\* keyword hands no file to the browser.
C19_EmptyExportsAreNoOps ==
  [][/\ (last'.kind = "copyMerged" /\ ResponseList(data, "merged") = <<>>)
          => UNCHANGED <<clipboard, downloads, copied, data, error, loading>>
     /\ (/\ last'.kind = "downloadCSV"
         /\ \A type \in GroupTypes : ResponseList(data, type) = <<>>)
          => UNCHANGED <<clipboard, downloads>>]_vars

\* ------------------------------------------------------------------------
\* A render pass, and every operation of the views next to one another
\* ------------------------------------------------------------------------
ValidationMessageShown_WhenEmpty == view = "validated" /\ ~valid

\* {!valid && url.length > 0 && (...)}: the inline validation message
ValidationMessageShown == view = "validated" /\ ~valid /\ Len(url) > 0

\* {loading && <LoadingSkeleton />}
SkeletonShown == view = "validated" /\ loading

\* {!data && !loading && (...)}: "Enter a URL above and click Analyze to get
\* started."
IdlePromptShown == view = "validated" /\ ~Truthy(data) /\ ~loading

\* What a render pass puts on the screen: a function of the state of the
\* component, none of whose expressions assigns to it.
View ==
  [field |-> url,
   topn |-> IF view = "validated" THEN geminiTopN ELSE 0,
   tab |-> IF view = "tabs" THEN activeTab ELSE "",
   disabled |-> AnalyzeDisabled,
   spinner |-> loading,
   validation |-> ValidationMessageShown,
   error |-> error,
   skeleton |-> SkeletonShown,
   prompt |-> IdlePromptShown,
   panel |-> ResultPanelShown,
   throws |-> RenderThrows,
   badges |-> [type \in GroupTypes |-> Badges(type)],
   counts |-> [type \in GroupTypes |-> CountShown(type)],
   metrics |-> IF CompetitorPanel /\ ~RenderThrows THEN MetricTexts(competitorData) ELSE {},
   keywordBadges |-> IF CompetitorPanel /\ ~RenderThrows
                       THEN <<KeywordsFound(competitorData), KeywordBadges(competitorData),
                              MoreBadge(competitorData)>>
                     ELSE <<>>,
   copyLabel |-> IF ExportButtons THEN (IF copied THEN "Copied" ELSE "Copy merged") ELSE ""]

\* React calls the component function again: no state is set.
Render ==
  /\ last.kind # "render"
  /\ last' = Exported("render")
  /\ UNCHANGED <<view, env, activeTab, url, geminiTopN, loading, seoData, keywordData,
                 competitorData, data, error, copied, clipboard, downloads, inflight,
                 nAccepted, nRequests, lastReq>>

\* A session with every operation: the field set to a valid URL, to an invalid
\* one or emptied, and requests that fail or succeed.
FrameUrls == {<<>>, <<"x">>, RenderUrl}
FrameOutcomes ==
  {[kind |-> "rejected", thrown |-> Error("Failed to fetch"), status |-> 0, body |-> NotJson],
   Response(500, Json(ErrorObject(Str("backend overloaded"), Undefined)))}
  \cup {Response(200, Json(p)) : p \in Payloads}

NextFrame ==
  \/ \E value \in FrameUrls : setUrl(value)
  \/ SwitchTab
  \/ EditTopN
  \/ Dismiss
  \/ Click
  \/ inflight # <<>> /\ \E outcome \in FrameOutcomes : analyzeSEO_crawlSettle(1, outcome)
  \/ inflight # <<>> /\ \E outcome \in FrameOutcomes : analyzeKeywordsSettle(1, outcome)
  \/ inflight # <<>> /\ \E outcome \in FrameOutcomes : analyzeCompetitorSettle(1, outcome)
  \/ inflight # <<>> /\ \E outcome \in FrameOutcomes : analyzeSEOSettle(1, outcome)
  \/ \E resolves \in BOOLEAN : copyMerged(resolves)
  \/ copiedExpires
  \/ downloadCSV
  \/ Render
SpecFrame == Init /\ [][NextFrame]_vars

\* The stored result objects.
Results == <<seoData, keywordData, competitorData, data>>

\* The state View is computed from.
ViewState ==
  <<view, activeTab, url, geminiTopN, loading, seoData, keywordData, competitorData, data,
    error, copied>>

\* C22: a stored result object changes only in the step that handles the
\* outcome of a request: no render pass, tab switch, edit of the URL or of the
\* AI keyword count, dismissal, copy or export changes it, and a render pass
\* leaves the state the view is computed from, and so the view, as it was.
C22_ResultsChangeOnlyOnResolve ==
  [][/\ Results' # Results
          => (last'.kind = "settled" /\ Len(inflight') = Len(inflight) - 1)
     /\ last'.kind = "render" => UNCHANGED ViewState]_vars

\* The validated view holds a result that was copied and exported, the URL
\* and the AI keyword count were edited after the click, and a render pass has
\* just run.
C22_Witness ==
  /\ view = "validated"
  /\ ~Absent(data)
  /\ last.kind = "render"
  /\ clipboard # <<>>
  /\ downloads # <<>>
  /\ url # lastReq.query.url
  /\ geminiTopN # lastReq.query.gemini_top_n
  /\ Badges("merged") # <<>>


\* C23: in the validated view the Analyze button is enabled exactly when the
\* URL field holds a valid URL and no request is loading, and the validation
\* message is shown exactly when the field is non-empty and invalid.
C23_ButtonAndMessage ==
  view = "validated"
    => /\ ~AnalyzeDisabled <=> (isValidUrl(url) /\ ~loading)
       /\ ValidationMessageShown <=> (url # <<>> /\ ~isValidUrl(url))

\* A request is loading and the field was edited to a blank: the button is
\* disabled and the message is shown.
C23_Witness ==
  /\ view = "validated"
  /\ loading
  /\ url = <<" ">>
  /\ AnalyzeDisabled
  /\ ValidationMessageShown


\* C24: the step that dismisses an error (the error goes from non-empty to
\* empty without a click being accepted) leaves url, loading, the result
\* objects, the AI keyword count and the copied flag unchanged; after it the
\* idle prompt is shown and no error with its Dismiss button is left, so that
\* a second dismissal has nothing to change.
C24_DismissOnlyClearsError ==
  [][(error # "" /\ error' = "" /\ nAccepted' = nAccepted)
       => /\ UNCHANGED <<url, loading, Results, geminiTopN, copied>>
          /\ IdlePromptShown'
          /\ ~ErrorShown']_vars

\* The error of a failed request was dismissed: nothing is loading, no error
\* and no result is left, and the URL of the request is still in the field.
C24_Witness ==
  /\ view = "validated"
  /\ nRequests >= 1
  /\ inflight = <<>>
  /\ error = ""
  /\ IdlePromptShown
  /\ url = lastReq.query.url
  /\ url # <<>>


\* ------------------------------------------------------------------------
\* Claims about the two modes of the tabs view
\* ------------------------------------------------------------------------
\* C25: in the tabs view the outcome of a keywords request changes no result
\* but the keyword result, which becomes the payload of a successful response,
\* and that of an analyze request none but the competitor result, whichever
\* tab is active then; a tab switch changes the active tab only.
C25_ResultsStoredByMode ==
  [][view = "tabs"
       => /\ (last'.kind = "settled" /\ last'.req.endpoint = "/keywords")
               => /\ UNCHANGED competitorData
                  /\ ~ErrorPath(last'.outcome) => keywordData' = last'.outcome.body.value
          /\ (last'.kind = "settled" /\ last'.req.endpoint = "/analyze")
               => /\ UNCHANGED keywordData
                  /\ ~ErrorPath(last'.outcome) => competitorData' = last'.outcome.body.value
          /\ activeTab' # activeTab
               => UNCHANGED <<url, loading, error, keywordData, competitorData, inflight>>]_vars

\* The response to a keywords request arrived while the competitor tab was
\* active and is stored as the keyword result; there is no competitor result.
C25_Witness ==
  /\ view = "tabs"
  /\ JustSettled
  /\ last.req.endpoint = "/keywords"
  /\ activeTab = "competitor"
  /\ ~Absent(keywordData)
  /\ keywordData = last.outcome.body.value
  /\ Absent(competitorData)


\* C26: in the tabs view one error message and one loading flag serve both
\* modes: while a request of either mode is loading the Analyze button of
\* both tabs is disabled; a displayed error stays as it is through a tab
\* switch and changes only when the next click is accepted, which clears it;
\* and no step takes a stored result of either mode away.
C26_SharedErrorAndLoading ==
  [][view = "tabs"
       => /\ loading => AnalyzeDisabled
          /\ activeTab' # activeTab => (error' = error /\ loading' = loading)
          /\ (error # "" /\ error' # error) => (nAccepted' = nAccepted + 1 /\ error' = "")
          /\ nAccepted' = nAccepted + 1 => error' = ""
          /\ ~Absent(keywordData) => ~Absent(keywordData')
          /\ ~Absent(competitorData) => ~Absent(competitorData')]_vars

\* The error of a failed keywords request is on display in the competitor
\* tab, next to the competitor result of an earlier request.
C26_Witness ==
  /\ view = "tabs"
  /\ activeTab = "competitor"
  /\ lastReq.endpoint = "/keywords"
  /\ ErrorShown
  /\ ~loading
  /\ ~Absent(competitorData)
  /\ ResultPanelShown


\* ------------------------------------------------------------------------
\* Claims about edits while a request is in flight
\* ------------------------------------------------------------------------
\* C27: a request carries the URL and the AI keyword count that were in the
\* fields when the click was accepted; an edit of either field changes
\* neither the requests in flight, nor loading, nor a stored result; and the
\* outcome that is handled is that of the request as it was issued, whose
\* payload is stored whatever the URL field holds by then.
C27_RequestKeepsClickTimeValues ==
  [][/\ nRequests' > nRequests
          => /\ lastReq'.query.url = url
             /\ lastReq'.handler = "analyzeSEO" => lastReq'.query.gemini_top_n = geminiTopN
             /\ inflight' = Append(inflight, lastReq')
     /\ (url' # url \/ geminiTopN' # geminiTopN)
          => UNCHANGED <<inflight, loading, Results, lastReq, nRequests>>
     /\ last'.kind = "settled"
          => /\ last'.req = lastReq
             /\ \A handler \in Handlers :
                  (last'.req.handler = handler /\ ~ErrorPath(last'.outcome))
                    => ResultOf(handler)' = last'.outcome.body.value]_vars

\* The payload of a request is stored although the URL field was edited to an
\* invalid string and the AI keyword count to another number while the request
\* was in flight.
C27_Witness ==
  /\ view = "validated"
  /\ JustSettled
  /\ ~Absent(data)
  /\ data = last.outcome.body.value
  /\ ~isValidUrl(url)
  /\ isValidUrl(last.req.query.url)
  /\ geminiTopN # last.req.query.gemini_top_n


\* ------------------------------------------------------------------------
\* Claims about the keywords of the competitor panel
\* ------------------------------------------------------------------------
\* The three lists of a response one after the other.
AllLists(d) ==
  ResponseList(d, "gemini") \o ResponseList(d, "onpage") \o ResponseList(d, "merged")

\* The place of the first occurrence of a keyword in a list.
FirstAt(list, kw) ==
  CHOOSE i \in 1..Len(list) : list[i] = kw /\ \A j \in 1..(i - 1) : list[j] # kw

\* all holds every keyword of list once, in the order of the first occurrences.
FirstOccurrences(all, list) ==
  /\ {all[i] : i \in 1..Len(all)} = {list[i] : i \in 1..Len(list)}
  /\ \A i, j \in 1..Len(all) : i < j => FirstAt(list, all[i]) < FirstAt(list, all[j])

\* C28: for the competitor result on display, getAllKeywords is the gemini,
\* onpage and merged lists one after the other with every keyword kept at its
\* first occurrence only (empty without keywords); when there are n > 0 of
\* them the panel shows the first min(20, n), a `+(n-20) more` badge exactly
\* when n > 20, and n as organic keywords when the response has keywords and
\* no organic_keywords.
C28_AllKeywordsShown ==
  CompetitorPanel
    => LET all == getAllKeywords(competitorData)
           n == Len(all)
           shown == View.keywordBadges
       IN  /\ FirstOccurrences(all, AllLists(competitorData))
           /\ n > 0 => shown # <<>>
           /\ shown # <<>>
                => /\ shown[2] = Take(all, IF n < 20 THEN n ELSE 20)
                   /\ shown[3] = (IF n > 20 THEN "+" \o ToString(n - 20) \o " more" ELSE "")
                   /\ (/\ Absent(Field(competitorData, "organic_keywords"))
                       /\ ~Absent(Field(competitorData, "keywords")))
                        => OrganicKeywords(competitorData) = ToString(n)

====
